---- MODULE Spec2Model ----
(***************************************************************************)
(* TrimeshCoasterNode.generate (src/trimesh_node.py) as a state machine.   *)
(*                                                                         *)
(* Every invocation of generate is a process p \in Procs with a program    *)
(* counter pc[p]; one action per statement group of the method.  The       *)
(* invocations share the output directory (fs) and the wall clock (now).   *)
(*                                                                         *)
(* Numbers are exact rationals <<n, d>> (d > 0, lowest terms); a zero      *)
(* denominator encodes the IEEE values the float division of the code      *)
(* yields: <<1,0>> = +inf, <<-1,0>> = -inf, <<0,0>> = nan.  Rounding of    *)
(* finite floats is not modelled.  A mesh is its vertex buffer; the face   *)
(* buffer (index triples) is not touched by any transform and is omitted.  *)
(***************************************************************************)
EXTENDS Integers, Sequences, FiniteSets, TLC

VARIABLES
    args,         \* [p] the arguments of the call (immutable)
    pc,           \* [p] position in generate
    base,         \* [p] local base        (line 49)
    path_obj,     \* [p] local path_obj    (line 52)
    poly_list,    \* [p] local poly_list   (line 67)
    idx,          \* [p] position of the for loop of line 73
    logo_meshes,  \* [p] local logo_meshes (line 72)
    heap,         \* [p] the mesh objects full_logo, top and bot refer to
    full_logo,    \* [p] reference held by full_logo (line 84)
    top,          \* [p] reference held by top (line 111)
    bot,          \* [p] reference held by bot (line 120)
    unique_name,  \* [p] local unique_name (line 134)
    result,       \* [p] how the call ended: a returned tuple or a raised exception
    calls,        \* [p] history: the collaborator calls made so far
    wrote,        \* [p] history: the paths this invocation exported to
    fs,           \* the files of the output directory: path -> content
    now           \* the wall clock, in seconds

vars == <<args, pc, base, path_obj, poly_list, idx, logo_meshes, heap,
          full_logo, top, bot, unique_name, result, calls, wrote, fs, now>>

Procs == {1, 2}

(***************************************************************************)
(* Float arithmetic.                                                       *)
(***************************************************************************)
Abs(n) == IF n < 0 THEN -n ELSE n

Sgn(n) == IF n > 0 THEN 1 ELSE IF n < 0 THEN -1 ELSE 0

RECURSIVE GCD(_, _)
GCD(a, b) == IF b = 0 THEN a ELSE GCD(b, a % b)

Q(n, d) ==
    IF d = 0 THEN <<Sgn(n), 0>>
    ELSE LET g == GCD(Abs(n), Abs(d))
             s == Sgn(d)
         IN  <<(s * n) \div g, (s * d) \div g>>

Zero == Q(0, 1)

One == Q(1, 1)

NaN == <<0, 0>>

FNeg(a) == <<-a[1], a[2]>>

FAdd(a, b) ==
    IF a[2] = 0 /\ b[2] = 0
    THEN (IF a = b THEN a ELSE NaN)
    ELSE Q(a[1] * b[2] + b[1] * a[2], a[2] * b[2])

FSub(a, b) == FAdd(a, FNeg(b))

FMul(a, b) == Q(a[1] * b[1], a[2] * b[2])

FDiv(a, b) == Q(a[1] * b[2], a[2] * b[1])

FLess(a, b) ==
    /\ a # NaN
    /\ b # NaN
    /\ IF a[2] = 0 /\ b[2] = 0 THEN a[1] < b[1]
       ELSE a[1] * b[2] < b[1] * a[2]

\* Python's max(a, b): the first argument unless the second is greater.
PyMax(a, b) == IF FLess(a, b) THEN b ELSE a

\* numpy's min and max along an axis: nan propagates.
NpMin(a, b) == IF a = NaN \/ b = NaN THEN NaN ELSE IF FLess(b, a) THEN b ELSE a

NpMax(a, b) == IF a = NaN \/ b = NaN THEN NaN ELSE IF FLess(a, b) THEN b ELSE a

(***************************************************************************)
(* Meshes and affine transforms.                                           *)
(***************************************************************************)
RECURSIVE FoldMin(_, _, _)
FoldMin(vs, k, n) ==
    IF n = Len(vs) THEN vs[n][k] ELSE NpMin(vs[n][k], FoldMin(vs, k, n + 1))

RECURSIVE FoldMax(_, _, _)
FoldMax(vs, k, n) ==
    IF n = Len(vs) THEN vs[n][k] ELSE NpMax(vs[n][k], FoldMax(vs, k, n + 1))

\* Trimesh.bounds: <<min corner, max corner>> of the vertices.
Bounds(m) ==
    << <<FoldMin(m, 1, 1), FoldMin(m, 2, 1), FoldMin(m, 3, 1)>>,
       <<FoldMax(m, 1, 1), FoldMax(m, 2, 1), FoldMax(m, 3, 1)>> >>

\* numpy.eye(4)
Eye4 ==
    << <<One, Zero, Zero, Zero>>,
       <<Zero, One, Zero, Zero>>,
       <<Zero, Zero, One, Zero>>,
       <<Zero, Zero, Zero, One>> >>

Row(M, r, v) ==
    FAdd(FAdd(FMul(M[r][1], v[1]), FMul(M[r][2], v[2])),
         FAdd(FMul(M[r][3], v[3]), M[r][4]))

\* Trimesh.apply_transform: every vertex v becomes M . (v, 1) (a new vertex array).
ApplyTransform(m, M) ==
    <<>> \o [n \in 1..Len(m) |-> <<Row(M, 1, m[n]), Row(M, 2, m[n]), Row(M, 3, m[n])>>]

\* Trimesh.apply_translation
ApplyTranslation(m, t) ==
    ApplyTransform(m, [Eye4 EXCEPT ![1][4] = t[1], ![2][4] = t[2], ![3][4] = t[3]])

\* cos and sin of a multiple of 90 degrees
Cos(deg) ==
    LET a == deg % 360
    IN  IF a = 0 THEN One ELSE IF a = 180 THEN FNeg(One) ELSE Zero

Sin(deg) ==
    LET a == deg % 360
    IN  IF a = 90 THEN One ELSE IF a = 270 THEN FNeg(One) ELSE Zero

\* trimesh.transformations.rotation_matrix(radians(deg), [0, 0, 1])
RotationZ(deg) ==
    [Eye4 EXCEPT ![1][1] = Cos(deg), ![1][2] = FNeg(Sin(deg)),
                 ![2][1] = Sin(deg), ![2][2] = Cos(deg)]

\* trimesh.transformations.rotation_matrix(pi, [1, 0, 0])
RotationXPi == [Eye4 EXCEPT ![2][2] = FNeg(One), ![3][3] = FNeg(One)]

RECURSIVE Concatenate(_)
\* trimesh.util.concatenate: the vertex buffers one after the other.
Concatenate(ms) == IF ms = <<>> THEN <<>> ELSE Head(ms) \o Concatenate(Tail(ms))

Sections == 120

\* trimesh.creation.cylinder: centred on the origin, z in [-height/2, height/2].
Cylinder(radius, height, sections) ==
    [radius |-> radius, height |-> height, sections |-> sections]

(***************************************************************************)
(* The collaborators: shapely (buffer), trimesh (load_path, extrude).      *)
(* Each is a function of its input; the polygons below are the kinds of    *)
(* ring a vector source can hold.                                          *)
(***************************************************************************)
Pt(x, y) == <<Q(x, 1), Q(y, 1)>>

Wide == [ring |-> <<Pt(0, 0), Pt(4, 0), Pt(0, 2)>>, buffer |-> "ok", extrude |-> "ok"]

Tall == [ring |-> <<Pt(5, 1), Pt(6, 1), Pt(5, 4)>>, buffer |-> "ok", extrude |-> "ok"]

\* a ring of zero area that buffer(0) collapses to the empty polygon
Sliver == [ring |-> <<Pt(0, 0), Pt(2, 0)>>, buffer |-> "empty", extrude |-> "ok"]

\* a ring on which buffer(0) raises
Broken == [ring |-> <<Pt(0, 0), Pt(1, 1)>>, buffer |-> "raise", extrude |-> "ok"]

\* a self-touching ring: buffer(0) splits it and extrude_polygon raises
Bowtie == [ring |-> <<Pt(0, 0), Pt(2, 2), Pt(2, 0), Pt(0, 2)>>, buffer |-> "ok", extrude |-> "raise"]

\* a ring that survives both calls as a mesh of no XY extent
Dot == [ring |-> <<Pt(1, 1)>>, buffer |-> "ok", extrude |-> "ok"]

Shapes == {Wide, Tall, Sliver, Broken, Bowtie, Dot}

\* trimesh.creation.extrude_polygon: the ring at z = 0 and at z = height.
ExtrudePolygon(poly, height) ==
    [n \in 1..Len(poly.ring) |-> <<poly.ring[n][1], poly.ring[n][2], Zero>>] \o
    [n \in 1..Len(poly.ring) |-> <<poly.ring[n][1], poly.ring[n][2], height>>]

MaxPolys == 2

PolyLists == UNION {[1..n -> Shapes] : n \in 0..MaxPolys}

\* A vector document: the length of its text and what trimesh.load_path makes of it.
Doc(len, malformed, full, closed) ==
    [kind |-> "file", len |-> len, malformed |-> malformed,
     polygons_full |-> full, polygons_closed |-> closed]

NoDoc == Doc(0, FALSE, <<>>, <<>>)

\* a 10 character document is not longer than 10
TenChars == Doc(10, FALSE, <<Wide>>, <<Wide>>)

Garbage == Doc(40, TRUE, <<>>, <<>>)

Directory == [NoDoc EXCEPT !.kind = "directory"]

\* documents with and without a hole hierarchy (polygons_full)
LongDocs ==
    {Doc(40, FALSE, l, l) : l \in PolyLists} \cup
    {Doc(40, FALSE, <<>>, l) : l \in PolyLists}

\* A str: a document between leading and trailing whitespace.
Str(pad, doc) == [pad |-> pad, doc |-> doc]

StrLen(s) == 2 * s.pad + s.doc.len

\* str.strip
Strip(s) == [s EXCEPT !.pad = 0]

\* the files on disk
Disk ==
    [f \in {"logo.svg", "tiny.svg", "bad.svg", "dir"} |->
        CASE f = "logo.svg" -> Doc(40, FALSE, <<Tall, Wide>>, <<Tall, Wide>>)
          [] f = "tiny.svg" -> TenChars
          [] f = "bad.svg" -> Garbage
          [] f = "dir" -> Directory]

\* os.path.exists
PathExists(path) == path \in DOMAIN Disk

\* trimesh.load_path: the path object, or an exception
LoadPath(doc) ==
    IF doc.kind = "directory" \/ doc.malformed
    THEN [raised |-> TRUE, obj |-> NoDoc]
    ELSE [raised |-> FALSE, obj |-> doc]

(***************************************************************************)
(* File names and the output directory.                                    *)
(***************************************************************************)
\* a relative path: the directory part ("" for none) and the file name
Name(dir, file) == [dir |-> dir, file |-> file]

\* folder_paths.get_output_directory()
OutDir == "output"

\* the directories that exist
Dirs == {OutDir}

\* os.path.join(out_dir, name) for a relative name
OsPathJoin(dir, name) ==
    [name EXCEPT !.dir = IF @ = "" THEN dir ELSE dir \o "/" \o @]

Pad2(n) == IF n < 10 THEN "0" \o ToString(n) ELSE ToString(n)

\* time.strftime("%H%M%S") at t seconds since midnight of day 0
StrfTime(t) ==
    LET s == t % 86400
    IN  Pad2(s \div 3600) \o Pad2((s % 3600) \div 60) \o Pad2(s % 60)

\* f"{output_name}_{timestamp}"
UniqueName(output_name, timestamp) ==
    [output_name EXCEPT !.file = @ \o "_" \o timestamp]

\* BodyPath without the unique name
BodyPathFixed(unique) == OsPathJoin(OutDir, Name("", "Body.stl"))

\* os.path.join(out_dir, f"{unique_name}_Body.stl")
BodyPath(unique) == OsPathJoin(OutDir, [unique EXCEPT !.file = @ \o "_Body.stl"])

\* os.path.join(out_dir, f"{unique_name}_Logos.stl")
LogoPath(unique) == OsPathJoin(OutDir, [unique EXCEPT !.file = @ \o "_Logos.stl"])

PathStr(path) == path.dir \o "/" \o path.file

\* what an exported file holds
Stl(cylinder, vertices) == [cylinder |-> cylinder, vertices |-> vertices]

NoCylinder == Cylinder(Zero, Zero, 0)

\* Trimesh.export(path): the file system after the write
Export(files, path, content) ==
    [f \in DOMAIN files \cup {path} |-> IF f = path THEN content ELSE files[f]]

(***************************************************************************)
(* The stages of generate as operators.                                    *)
(***************************************************************************)
\* Source with the inline text measured before it is stripped
SourceUnstripped(a) ==
    IF StrLen(a.svg_string) > 0 /\ StrLen(a.svg_string) > 10 THEN "string"
    ELSE IF a.svg_path # "" /\ PathExists(a.svg_path) THEN "file"
    ELSE "none"

\* lines 54 and 58: which source the call loads
Source(a) ==
    IF StrLen(a.svg_string) > 0 /\ StrLen(Strip(a.svg_string)) > 10 THEN "string"
    ELSE IF a.svg_path # "" /\ PathExists(a.svg_path) THEN "file"
    ELSE "none"

\* line 67
PolyList(obj) ==
    IF obj.polygons_full # <<>> THEN obj.polygons_full ELSE obj.polygons_closed

\* NoClosedShapes with the check of line 68 left out
NoClosedShapesUnchecked(polys) == FALSE

\* line 68: not poly_list
NoClosedShapes(polys) == polys = <<>>

\* line 88
CurrentSize(m) ==
    LET bounds == Bounds(m)
    IN  PyMax(FSub(bounds[2][1], bounds[1][1]), FSub(bounds[2][2], bounds[1][2]))

\* ScaleMatrix with each axis normalised by its own extent
ScaleMatrixPerAxis(m, diameter, scale, flip_horizontal) ==
    LET bounds == Bounds(m)
        target_size == FMul(diameter, scale)
        mirror_x == IF flip_horizontal THEN FNeg(One) ELSE One
    IN  [Eye4 EXCEPT ![1][1] = FDiv(FMul(mirror_x, target_size),
                                    FSub(bounds[2][1], bounds[1][1])),
                     ![2][2] = FDiv(target_size, FSub(bounds[2][2], bounds[1][2]))]

\* lines 89-95: the scale and mirror matrix
ScaleMatrix(m, diameter, scale, flip_horizontal) ==
    LET current_size == CurrentSize(m)
        target_size == FMul(diameter, scale)
        mirror_x == IF flip_horizontal THEN FNeg(One) ELSE One
    IN  [Eye4 EXCEPT ![1][1] = FMul(@, FDiv(FMul(mirror_x, target_size), current_size)),
                     ![2][2] = FMul(@, FDiv(target_size, current_size))]

\* lines 99-105: the centring translation
CenterMatrix(m) ==
    LET new_bounds == Bounds(m)
        center_x == FDiv(FAdd(new_bounds[1][1], new_bounds[2][1]), Q(2, 1))
        center_y == FDiv(FAdd(new_bounds[1][2], new_bounds[2][2]), Q(2, 1))
    IN  [Eye4 EXCEPT ![1][4] = FNeg(center_x), ![2][4] = FNeg(center_y)]

\* line 116
TopZ(thickness, logo_depth) == FSub(FDiv(thickness, Q(2, 1)), logo_depth)

\* line 128
BotZ(thickness, logo_depth) == FAdd(FDiv(FNeg(thickness), Q(2, 1)), logo_depth)

\* MeshCopy as an assignment: a second reference to the same object
MeshCopyAlias(ref, site) == ref

\* Trimesh.copy(): a new object, at the allocation site, holding the same data
MeshCopy(ref, site) == site

\* lines 111-117 on the heap h: the top instance, made from the object at ref
TopInstance(h, ref, a) ==
    LET t == MeshCopy(ref, "o_top")
        h1 == [h EXCEPT ![t] = h[ref]]
        h2 == IF a.top_rotate # 0
              THEN [h1 EXCEPT ![t] = ApplyTransform(@, RotationZ(a.top_rotate))]
              ELSE h1
    IN  [ref |-> t,
         heap |-> [h2 EXCEPT ![t] =
                     ApplyTranslation(@, <<Zero, Zero, TopZ(a.thickness, a.logo_depth)>>)]]

\* lines 120-129 on the heap h: the bottom instance, made from the object at ref
BottomInstance(h, ref, a) ==
    LET b == MeshCopy(ref, "o_bot")
        h1 == [h EXCEPT ![b] = h[ref]]
        h2 == IF a.bottom_rotate # 0
              THEN [h1 EXCEPT ![b] = ApplyTransform(@, RotationZ(a.bottom_rotate))]
              ELSE h1
        h3 == [h2 EXCEPT ![b] = ApplyTransform(@, RotationXPi)]
    IN  [ref |-> b,
         heap |-> [h3 EXCEPT ![b] =
                     ApplyTranslation(@, <<Zero, Zero, BotZ(a.thickness, a.logo_depth)>>)]]

(***************************************************************************)
(* The arguments of a call.                                                *)
(***************************************************************************)
Diameters == {Q(50, 1), Q(100, 1)}

Thicknesses == {Q(2, 1), Q(5, 1)}

Depths == {Q(3, 5), Q(5, 1)}

Scales == {Q(1, 10), Q(17, 20)}

\* top_rotate and bottom_rotate come in steps of 90 (lines 29-30)
Rotations == {-90, 0, 180}

Geometries ==
    [diameter : Diameters, thickness : Thicknesses, logo_depth : Depths,
     scale : Scales, flip_horizontal : BOOLEAN,
     top_rotate : Rotations, bottom_rotate : Rotations]

\* svg_string with the default svg_path, and the sources that reach line 58
Sources ==
    {<<Str(0, d), "">> : d \in LongDocs \cup {NoDoc, TenChars, Garbage}} \cup
    ({Str(0, NoDoc), Str(6, NoDoc), Str(3, TenChars), Str(0, Doc(40, FALSE, <<Wide>>, <<Wide>>))}
        \X {"", "logo.svg", "tiny.svg", "bad.svg", "dir", "missing.svg"})

\* documents whose rings all extrude
GoodLists == UNION {[1..n -> {Wide, Tall}] : n \in 1..MaxPolys}

Args(name, g, src) ==
    [output_name |-> name, diameter |-> g.diameter, thickness |-> g.thickness,
     logo_depth |-> g.logo_depth, scale |-> g.scale,
     flip_horizontal |-> g.flip_horizontal, top_rotate |-> g.top_rotate,
     bottom_rotate |-> g.bottom_rotate, svg_path |-> src[2], svg_string |-> src[1]]

\* every source, a few geometries
PipelineArgs ==
    {Args(n, g, s) :
        n \in {Name("", "Coaster"), Name("missing", "Coaster")},
        g \in {x \in Geometries : /\ x.diameter = Q(100, 1) /\ x.scale = Q(17, 20)
                                  /\ x.flip_horizontal /\ x.top_rotate = 0
                                  /\ x.bottom_rotate = 180},
        s \in Sources}

\* every geometry, the sources that extrude
GeometryArgs ==
    {Args(Name("", "Coaster"), g, <<Str(0, Doc(40, FALSE, l, l)), "">>) :
        g \in Geometries, l \in GoodLists}

\* two calls that differ in what they compute
ConcurrentArgs ==
    [Procs ->
        {Args(n, g, s) :
            n \in {Name("", "Coaster"), Name("", "Coaster_000001")},
            g \in {x \in Geometries : /\ x.thickness = Q(5, 1) /\ x.logo_depth = Q(3, 5)
                                      /\ x.scale = Q(17, 20) /\ x.flip_horizontal
                                      /\ x.top_rotate = 0 /\ x.bottom_rotate = 0},
            s \in {<<Str(0, Doc(40, FALSE, <<Wide>>, <<Wide>>)), "">>,
                   <<Str(0, Doc(40, FALSE, <<Tall>>, <<Tall>>)), "">>,
                   <<Str(0, NoDoc), "">>}}]

\* the defaults of INPUT_TYPES
DefaultArgs ==
    [output_name |-> Name("", "Abhishek_Coaster"), diameter |-> Q(100, 1),
     thickness |-> Q(5, 1), logo_depth |-> Q(3, 5), scale |-> Q(17, 20),
     flip_horizontal |-> TRUE, top_rotate |-> 0, bottom_rotate |-> 0,
     svg_path |-> "", svg_string |-> Str(0, NoDoc)]

\* the instants at which the clock is read
Instants == {1, 3661, 86401}

(***************************************************************************)
(* State.                                                                  *)
(***************************************************************************)
ObjIds == {"o_logo", "o_top", "o_bot"}

NoResult == [kind |-> "none", value |-> ""]

Return(text) == [kind |-> "return", value |-> text]

Raise(what) == [kind |-> "raise", value |-> what]

ErrNoInput == "Error: No valid SVG string or file path provided."

ErrParse == "Error parsing SVG: load_path"

ErrNoShapes == "Error: No valid closed shapes found in SVG."

ErrExtrusion == "Error: Geometry extrusion failed."

Errors == {ErrNoInput, ErrParse, ErrNoShapes, ErrExtrusion}

\* the state in which the calls in `running` have been entered with arguments a
InitWith(running, a) ==
    /\ args = a
    /\ pc = [p \in Procs |-> IF p \in running THEN "start" ELSE "idle"]
    /\ base = [p \in Procs |-> NoCylinder]
    /\ path_obj = [p \in Procs |-> NoDoc]
    /\ poly_list = [p \in Procs |-> <<>>]
    /\ idx = [p \in Procs |-> 0]
    /\ logo_meshes = [p \in Procs |-> <<>>]
    /\ heap = [p \in Procs |-> [o \in ObjIds |-> <<>>]]
    /\ full_logo = [p \in Procs |-> "null"]
    /\ top = [p \in Procs |-> "null"]
    /\ bot = [p \in Procs |-> "null"]
    /\ unique_name = [p \in Procs |-> Name("", "")]
    /\ result = [p \in Procs |-> NoResult]
    /\ calls = [p \in Procs |-> <<>>]
    /\ wrote = [p \in Procs |-> {}]
    /\ fs = <<>>
    /\ now = 0

\* one call of generate, over the sources
Init == \E a \in PipelineArgs : InitWith({1}, [p \in Procs |-> IF p = 1 THEN a ELSE DefaultArgs])

\* one call of generate, over the geometries
GeometryInit ==
    \E a \in GeometryArgs : InitWith({1}, [p \in Procs |-> IF p = 1 THEN a ELSE DefaultArgs])

\* two calls of generate in separate execution contexts
ConcurrentInit ==
    \E a \in ConcurrentArgs :
        /\ a[1].diameter = Q(100, 1)
        /\ a[2].diameter = Q(50, 1)
        /\ InitWith(Procs, a)

Goto(p, label) == pc' = [pc EXCEPT ![p] = label]

Finish(p, r) ==
    /\ pc' = [pc EXCEPT ![p] = "done"]
    /\ result' = [result EXCEPT ![p] = r]

Called(p, names) == calls' = [calls EXCEPT ![p] = @ \o names]

(***************************************************************************)
(* The actions: generate, statement group by statement group.              *)
(***************************************************************************)
\* lines 46-49
BaseCylinder(p) ==
    /\ pc[p] = "start"
    /\ base' = [base EXCEPT ![p] =
                  Cylinder(FDiv(args[p].diameter, Q(2, 1)), args[p].thickness, Sections)]
    /\ Goto(p, "load")
    /\ UNCHANGED <<args, path_obj, poly_list, idx, logo_meshes, heap, full_logo, top,
                   bot, unique_name, result, calls, wrote, fs, now>>

\* lines 52-64
LoadSVG(p) ==
    /\ pc[p] = "load"
    /\ LET a == args[p]
           src == Source(a)
           loaded == LoadPath(IF src = "string" THEN a.svg_string.doc ELSE Disk[a.svg_path])
       IN  IF src = "none"
           THEN /\ Finish(p, Return(ErrNoInput))
                /\ UNCHANGED <<path_obj, calls>>
           ELSE /\ Called(p, <<"load_path">>)
                /\ IF loaded.raised
                   THEN /\ Finish(p, Return(ErrParse))
                        /\ UNCHANGED path_obj
                   ELSE /\ path_obj' = [path_obj EXCEPT ![p] = loaded.obj]
                        /\ Goto(p, "polygons")
                        /\ UNCHANGED result
    /\ UNCHANGED <<args, base, poly_list, idx, logo_meshes, heap, full_logo, top, bot,
                   unique_name, wrote, fs, now>>

\* lines 66-72
Polygons(p) ==
    /\ pc[p] = "polygons"
    /\ poly_list' = [poly_list EXCEPT ![p] = PolyList(path_obj[p])]
    /\ IF NoClosedShapes(poly_list'[p])
       THEN /\ Finish(p, Return(ErrNoShapes))
            /\ UNCHANGED <<idx, logo_meshes>>
       ELSE /\ logo_meshes' = [logo_meshes EXCEPT ![p] = <<>>]
            /\ idx' = [idx EXCEPT ![p] = 1]
            /\ Goto(p, "extrude")
            /\ UNCHANGED result
    /\ UNCHANGED <<args, base, path_obj, heap, full_logo, top, bot, unique_name, calls,
                   wrote, fs, now>>

\* lines 73-79: one turn of the loop
Extrude(p) ==
    /\ pc[p] = "extrude"
    /\ idx[p] <= Len(poly_list[p])
    /\ LET poly == poly_list[p][idx[p]]
       IN  CASE poly.buffer = "raise" ->
                  /\ Called(p, <<"buffer">>)
                  /\ Finish(p, Raise("buffer"))
                  /\ UNCHANGED <<idx, logo_meshes>>
             [] poly.buffer = "empty" ->
                  /\ Called(p, <<"buffer">>)
                  /\ idx' = [idx EXCEPT ![p] = @ + 1]
                  /\ UNCHANGED <<pc, result, logo_meshes>>
             [] poly.buffer = "ok" /\ poly.extrude = "raise" ->
                  /\ Called(p, <<"buffer", "extrude_polygon">>)
                  /\ idx' = [idx EXCEPT ![p] = @ + 1]
                  /\ UNCHANGED <<pc, result, logo_meshes>>
             [] poly.buffer = "ok" /\ poly.extrude = "ok" ->
                  /\ Called(p, <<"buffer", "extrude_polygon">>)
                  /\ logo_meshes' = [logo_meshes EXCEPT ![p] =
                                       Append(@, ExtrudePolygon(poly, args[p].logo_depth))]
                  /\ idx' = [idx EXCEPT ![p] = @ + 1]
                  /\ UNCHANGED <<pc, result>>
    /\ UNCHANGED <<args, base, path_obj, poly_list, heap, full_logo, top, bot,
                   unique_name, wrote, fs, now>>

\* lines 81-84
Aggregate(p) ==
    /\ pc[p] = "extrude"
    /\ idx[p] > Len(poly_list[p])
    /\ IF logo_meshes[p] = <<>>
       THEN /\ Finish(p, Return(ErrExtrusion))
            /\ UNCHANGED <<heap, full_logo, calls>>
       ELSE /\ Called(p, <<"concatenate">>)
            /\ heap' = [heap EXCEPT ![p]["o_logo"] = Concatenate(logo_meshes[p])]
            /\ full_logo' = [full_logo EXCEPT ![p] = "o_logo"]
            /\ Goto(p, "scale")
            /\ UNCHANGED result
    /\ UNCHANGED <<args, base, path_obj, poly_list, idx, logo_meshes, top, bot,
                   unique_name, wrote, fs, now>>

\* lines 86-96
ScaleMirror(p) ==
    /\ pc[p] = "scale"
    /\ heap' = [heap EXCEPT ![p][full_logo[p]] =
                  ApplyTransform(@, ScaleMatrix(@, args[p].diameter, args[p].scale,
                                                args[p].flip_horizontal))]
    /\ Goto(p, "center")
    /\ UNCHANGED <<args, base, path_obj, poly_list, idx, logo_meshes, full_logo, top,
                   bot, unique_name, result, calls, wrote, fs, now>>

\* lines 98-106
Center(p) ==
    /\ pc[p] = "center"
    /\ heap' = [heap EXCEPT ![p][full_logo[p]] = ApplyTransform(@, CenterMatrix(@))]
    /\ Goto(p, "top")
    /\ UNCHANGED <<args, base, path_obj, poly_list, idx, logo_meshes, full_logo, top,
                   bot, unique_name, result, calls, wrote, fs, now>>

\* lines 110-117
TopLogo(p) ==
    /\ pc[p] = "top"
    /\ LET r == TopInstance(heap[p], full_logo[p], args[p])
       IN  /\ heap' = [heap EXCEPT ![p] = r.heap]
           /\ top' = [top EXCEPT ![p] = r.ref]
    /\ Goto(p, "bottom")
    /\ UNCHANGED <<args, base, path_obj, poly_list, idx, logo_meshes, full_logo, bot,
                   unique_name, result, calls, wrote, fs, now>>

\* lines 119-129
BottomLogo(p) ==
    /\ pc[p] = "bottom"
    /\ LET r == BottomInstance(heap[p], full_logo[p], args[p])
       IN  /\ heap' = [heap EXCEPT ![p] = r.heap]
           /\ bot' = [bot EXCEPT ![p] = r.ref]
    /\ Goto(p, "stamp")
    /\ UNCHANGED <<args, base, path_obj, poly_list, idx, logo_meshes, full_logo, top,
                   unique_name, result, calls, wrote, fs, now>>

\* lines 131-138: the clock is read at some instant not before the last reading
Stamp(p) ==
    /\ pc[p] = "stamp"
    /\ \E t \in Instants :
         /\ t >= now
         /\ now' = t
         /\ unique_name' = [unique_name EXCEPT ![p] =
                              UniqueName(args[p].output_name, StrfTime(t))]
    /\ Goto(p, "export_body")
    /\ UNCHANGED <<args, base, path_obj, poly_list, idx, logo_meshes, heap, full_logo,
                   top, bot, result, calls, wrote, fs>>

\* line 140, the write done
ExportBody(p) ==
    /\ pc[p] = "export_body"
    /\ LET body_path == BodyPath(unique_name[p])
       IN  /\ body_path.dir \in Dirs
           /\ fs' = Export(fs, body_path, Stl(base[p], <<>>))
           /\ wrote' = [wrote EXCEPT ![p] = @ \cup {body_path}]
    /\ Called(p, <<"export">>)
    /\ Goto(p, "export_logos")
    /\ UNCHANGED <<args, base, path_obj, poly_list, idx, logo_meshes, heap, full_logo,
                   top, bot, unique_name, result, now>>

\* lines 141-144, the write done
ExportLogos(p) ==
    /\ pc[p] = "export_logos"
    /\ LET body_path == BodyPath(unique_name[p])
           logo_path == LogoPath(unique_name[p])
       IN  /\ logo_path.dir \in Dirs
           /\ fs' = Export(fs, logo_path,
                           Stl(NoCylinder, Concatenate(<<heap[p][top[p]], heap[p][bot[p]]>>)))
           /\ wrote' = [wrote EXCEPT ![p] = @ \cup {logo_path}]
           /\ Finish(p, Return(PathStr(body_path) \o " \n " \o PathStr(logo_path)))
    /\ Called(p, <<"concatenate", "export">>)
    /\ UNCHANGED <<args, base, path_obj, poly_list, idx, logo_meshes, heap, full_logo,
                   top, bot, unique_name, now>>

\* lines 140 and 141: export raises (no such directory, or the write fails)
ExportFails(p) ==
    /\ pc[p] \in {"export_body", "export_logos"}
    /\ Called(p, IF pc[p] = "export_body" THEN <<"export">> ELSE <<"concatenate", "export">>)
    /\ Finish(p, Raise("export"))
    /\ UNCHANGED <<args, base, path_obj, poly_list, idx, logo_meshes, heap, full_logo,
                   top, bot, unique_name, wrote, fs, now>>

Generate(p) ==
    \/ BaseCylinder(p)
    \/ LoadSVG(p)
    \/ Polygons(p)
    \/ Extrude(p)
    \/ Aggregate(p)
    \/ ScaleMirror(p)
    \/ Center(p)
    \/ TopLogo(p)
    \/ BottomLogo(p)
    \/ Stamp(p)
    \/ ExportBody(p)
    \/ ExportLogos(p)
    \/ ExportFails(p)

Next == \E p \in Procs : Generate(p)

Spec == Init /\ [][Next]_vars

GeometrySpec == GeometryInit /\ [][Next]_vars

ConcurrentSpec == ConcurrentInit /\ [][Next]_vars

(***************************************************************************)
(* Vocabulary of the properties.                                           *)
(***************************************************************************)
Failed(p) == result[p].kind = "return" /\ result[p].value \in Errors

Succeeded(p) == result[p].kind = "return" /\ result[p].value \notin Errors

Times(p, name) == Len(SelectSeq(calls[p], LAMBDA c : c = name))

\* the path provider returned a path object
Loaded(p) ==
    /\ pc[p] \notin {"idle", "start", "load"}
    /\ calls[p] # <<>>
    /\ result[p] # Return(ErrParse)

\* the combined logo mesh exists
Combined(p) == full_logo[p] # "null"

\* both instances exist
Instanced(p) == bot[p] # "null"

\* the clock has been read
Stamped(p) == unique_name[p] # Name("", "")

ExtentX(m) == FSub(Bounds(m)[2][1], Bounds(m)[1][1])

ExtentY(m) == FSub(Bounds(m)[2][2], Bounds(m)[1][2])

MinZ(m) == Bounds(m)[1][3]

MaxZ(m) == Bounds(m)[2][3]

FLeq(a, b) == a = b \/ FLess(a, b)

FAbs(a) == <<Abs(a[1]), a[2]>>

Half(a) == FDiv(a, Q(2, 1))

\* the combined logo mesh as the aggregation step made it
Aggregated(p) == Concatenate(logo_meshes[p])

(***************************************************************************)
(* C1: no output file exists unless every geometry stage, the merge of the *)
(* top and bottom instances included, has succeeded: an invocation that    *)
(* has written a file has done the merge, and one that ended in a failure  *)
(* has written none.                                                       *)
(***************************************************************************)
C1_NoFileBeforeGeometry ==
    \A p \in Procs :
        /\ wrote[p] # {} => Instanced(p) /\ Times(p, "concatenate") = 2
        /\ (pc[p] = "done" /\ ~Succeeded(p)) => wrote[p] = {}

(***************************************************************************)
(* C2: every invocation that ends, ends by returning a value (the paths or *)
(* a diagnostic), never by an exception leaving generate.                  *)
(***************************************************************************)
C2_AlwaysReturns ==
    \A p \in Procs : pc[p] = "done" => result[p].kind = "return"

(***************************************************************************)
(* C3: when the combined logo mesh has current_size = 0 the invocation     *)
(* does not go past the scale step: it ends with a failure result and      *)
(* writes no file.                                                         *)
(***************************************************************************)
C3_DegenerateGuard ==
    \A p \in Procs :
        (Combined(p) /\ CurrentSize(Aggregated(p)) = Zero /\ pc[p] # "scale")
            => pc[p] = "done" /\ Failed(p) /\ wrote[p] = {}

(***************************************************************************)
(* C4: after face instancing the top instance spans thickness/2 -          *)
(* logo_depth to thickness/2 in Z, the bottom instance -thickness/2 to     *)
(* -thickness/2 + logo_depth, and neither leaves [-thickness/2,            *)
(* thickness/2].                                                           *)
(***************************************************************************)
C4_FlushPlacement ==
    \A p \in Procs :
        Instanced(p) =>
            LET t == heap[p][top[p]]
                b == heap[p][bot[p]]
                half == Half(args[p].thickness)
                depth == args[p].logo_depth
            IN  /\ MinZ(t) = FSub(half, depth)
                /\ MaxZ(t) = half
                /\ MaxZ(b) = FAdd(FNeg(half), depth)
                /\ MinZ(b) = FNeg(half)
                /\ FLeq(FNeg(half), MinZ(t))
                /\ FLeq(MaxZ(b), half)

UsableInline(a) == a.svg_string.doc.len > 10

ExistingFile(a) == a.svg_path \in DOMAIN Disk

(***************************************************************************)
(* C5: an invocation ends with the InputError result exactly when it was   *)
(* given neither a usable inline source (more than 10 characters once      *)
(* stripped) nor the path of an existing file; it has then called no       *)
(* collaborator and written no file; a usable inline source is the one     *)
(* loaded even when an existing file path is given too.                    *)
(***************************************************************************)
C5_InputError ==
    \A p \in Procs :
        /\ pc[p] = "done" =>
             (result[p] = Return(ErrNoInput)
                <=> ~UsableInline(args[p]) /\ ~ExistingFile(args[p]))
        /\ result[p] = Return(ErrNoInput) => calls[p] = <<>> /\ wrote[p] = {}
        /\ (Loaded(p) /\ UsableInline(args[p])) => path_obj[p] = args[p].svg_string.doc

C5_Witness ==
    /\ pc[1] = "done"
    /\ result[1] = Return(ErrNoInput)
    /\ args[1].svg_string = Str(3, TenChars)
    /\ args[1].svg_path = "missing.svg"

(***************************************************************************)
(* C6: when the path provider yields no closed polygon, with or without    *)
(* hole hierarchy, the invocation ends with the GeometryError result, has  *)
(* sanitized and extruded nothing and has written no file.                 *)
(***************************************************************************)
C6_OpenPathsOnly ==
    \A p \in Procs :
        (/\ Loaded(p)
         /\ pc[p] # "polygons"
         /\ path_obj[p].polygons_full = <<>>
         /\ path_obj[p].polygons_closed = <<>>)
            => /\ pc[p] = "done"
               /\ result[p] = Return(ErrNoShapes)
               /\ calls[p] = <<"load_path">>
               /\ wrote[p] = {}

C6_Witness ==
    /\ pc[1] = "done"
    /\ Loaded(1)
    /\ path_obj[1].polygons_closed = <<>>
    /\ result[1] = Return(ErrNoShapes)

(***************************************************************************)
(* C7: after the scale step a logo of extents (w, h), w >= h > 0, has X    *)
(* extent D*s and Y extent D*s*h/w (for h > w: Y extent D*s, X extent      *)
(* D*s*w/h); every vertex has both |x| and |y| multiplied by               *)
(* D*s/max(w, h), mirrored or not, and keeps its z.                        *)
(***************************************************************************)
C7_Normalizer ==
    \A p \in Procs :
        pc[p] = "center" =>
            LET before == Aggregated(p)
                after == heap[p][full_logo[p]]
                w == ExtentX(before)
                h == ExtentY(before)
                target == FMul(args[p].diameter, args[p].scale)
                factor == FDiv(target, IF FLess(w, h) THEN h ELSE w)
            IN  /\ (FLeq(h, w) /\ FLess(Zero, h)) =>
                      /\ ExtentX(after) = target
                      /\ ExtentY(after) = FDiv(FMul(target, h), w)
                /\ (FLess(w, h) /\ FLess(Zero, w)) =>
                      /\ ExtentY(after) = target
                      /\ ExtentX(after) = FDiv(FMul(target, w), h)
                /\ Len(after) = Len(before)
                /\ \A n \in 1..Len(before) :
                      /\ FAbs(after[n][1]) = FMul(factor, FAbs(before[n][1]))
                      /\ FAbs(after[n][2]) = FMul(factor, FAbs(before[n][2]))
                      /\ after[n][3] = before[n][3]

C7_Witness ==
    /\ pc[1] = "center"
    /\ args[1].flip_horizontal
    /\ args[1].svg_string.doc.polygons_full = <<Wide>>
    /\ ExtentX(heap[1][full_logo[1]]) = Q(85, 1)
    /\ ExtentY(heap[1][full_logo[1]]) = Q(85, 2)

Survives(poly) == poly.buffer = "ok" /\ poly.extrude = "ok"

(***************************************************************************)
(* C8: a polygon whose sanitization or extrusion fails is dropped and the  *)
(* loop goes on: no invocation ends by an error of the loop, the surviving *)
(* meshes are those of the polygons that sanitize and extrude, in input    *)
(* order, and the invocation ends with the extrusion error exactly when    *)
(* none survives.                                                          *)
(***************************************************************************)
C8_PerPolygonTolerance ==
    \A p \in Procs :
        (pc[p] \notin {"idle", "start", "load", "polygons", "extrude"} /\ poly_list[p] # <<>>)
            => LET kept == SelectSeq(poly_list[p], Survives)
               IN  /\ result[p] # Raise("buffer")
                   /\ logo_meshes[p] =
                        [n \in 1..Len(kept) |-> ExtrudePolygon(kept[n], args[p].logo_depth)]
                   /\ result[p] = Return(ErrExtrusion) <=> kept = <<>>

Centered(p) ==
    LET aggregated == Aggregated(p)
        scaled == ApplyTransform(aggregated,
                      ScaleMatrix(aggregated, args[p].diameter, args[p].scale,
                                  args[p].flip_horizontal))
    IN  ApplyTransform(scaled, CenterMatrix(scaled))

TopOf(centered, top_rotate, thickness, logo_depth) ==
    <<>> \o [n \in 1..Len(centered) |->
        LET v == centered[n]
        IN  <<FSub(FMul(Cos(top_rotate), v[1]), FMul(Sin(top_rotate), v[2])),
              FAdd(FMul(Sin(top_rotate), v[1]), FMul(Cos(top_rotate), v[2])),
              FAdd(v[3], FSub(Half(thickness), logo_depth))>>]

BottomOf(centered, bottom_rotate, thickness, logo_depth) ==
    <<>> \o [n \in 1..Len(centered) |->
        LET v == centered[n]
        IN  <<FSub(FMul(Cos(bottom_rotate), v[1]), FMul(Sin(bottom_rotate), v[2])),
              FNeg(FAdd(FMul(Sin(bottom_rotate), v[1]), FMul(Cos(bottom_rotate), v[2]))),
              FAdd(FNeg(v[3]), FSub(logo_depth, Half(thickness)))>>]

(***************************************************************************)
(* C9: the top and the bottom instance are copies: when both have been    *)
(* made, the centered mesh is still the centered mesh, the top instance is *)
(* what top_rotate, thickness and logo_depth make of it, and the bottom    *)
(* instance is what bottom_rotate, thickness and logo_depth make of it.    *)
(***************************************************************************)
C9_IndependentCopies ==
    \A p \in Procs :
        pc[p] = "stamp" =>
            LET centered == Centered(p)
            IN  /\ heap[p][full_logo[p]] = centered
                /\ heap[p][top[p]] =
                     TopOf(centered, args[p].top_rotate, args[p].thickness,
                           args[p].logo_depth)
                /\ heap[p][bot[p]] =
                     BottomOf(centered, args[p].bottom_rotate, args[p].thickness,
                              args[p].logo_depth)

C9_Witness ==
    /\ pc[1] = "stamp"
    /\ args[1].top_rotate = -90
    /\ args[1].bottom_rotate = 180
    /\ heap[1][top[1]] # heap[1][full_logo[1]]
    /\ heap[1][bot[1]] # heap[1][top[1]]

\* what invocation p exports to path f
Computed(p, f) ==
    IF f.file = unique_name[p].file \o "_Body.stl"
    THEN Stl(Cylinder(Half(args[p].diameter), args[p].thickness, Sections), <<>>)
    ELSE Stl(NoCylinder, Concatenate(<<heap[p][top[p]], heap[p][bot[p]]>>))

(***************************************************************************)
(* C10: two invocations whose "{output_name}_{HHMMSS}" prefixes differ     *)
(* write disjoint sets of files, and every file an invocation has written  *)
(* holds the mesh that invocation computed; a file of one invocation holds *)
(* something else only when the other invocation has the same prefix.      *)
(***************************************************************************)
C10_DisjointFiles ==
    \A p \in Procs : \A q \in Procs \ {p} :
        /\ (Stamped(p) /\ Stamped(q) /\ unique_name[p] # unique_name[q])
              => wrote[p] \cap wrote[q] = {}
        /\ \A f \in wrote[p] :
              /\ f \in DOMAIN fs
              /\ f.file \in {unique_name[p].file \o "_Body.stl",
                             unique_name[p].file \o "_Logos.stl"}
              /\ fs[f] # Computed(p, f) => Stamped(q) /\ unique_name[q] = unique_name[p]

C10_Witness ==
    /\ \A p \in Procs : pc[p] = "done" /\ Succeeded(p)
    /\ unique_name[1] # unique_name[2]
    /\ Cardinality(DOMAIN fs) = 4
    /\ now = 86401

====
